---- MODULE Spec2Model ----
(***************************************************************************)
(* Model of src/probability.py: the probability-function type P_fn with    *)
(* its combinators (given, conditional, independent, mutually_exclusive,   *)
(* dependent) and the scalar probability type P with its operators.        *)
(*                                                                         *)
(* Python floats are modelled as exact rationals <<numerator, denominator>>*)
(* in lowest terms; a Python exception is modelled as a result record with *)
(* ok = FALSE and the exception's type name in exc.                        *)
(***************************************************************************)
EXTENDS Integers, Sequences, FiniteSets, TLC

\* Largest number of P_fn instances alive in one run.
MaxObjects == 3

\* The scalar probabilities P is exercised on are the multiples of 1/PDen.
PDen == 4

(***************************************************************************)
(* Rational arithmetic standing for Python's float arithmetic.             *)
(***************************************************************************)
RECURSIVE GCD(_, _)
GCD(a, b) == IF b = 0 THEN a ELSE GCD(b, a % b)

Abs(n) == IF n < 0 THEN -n ELSE n

Norm(n, d) ==
    LET g == GCD(Abs(n), Abs(d))
        s == IF d < 0 THEN -1 ELSE 1
    IN  <<(s * n) \div g, (s * d) \div g>>

Zero == <<0, 1>>
One == <<1, 1>>

RatAdd(a, b) == Norm(a[1] * b[2] + b[1] * a[2], a[2] * b[2])
RatNeg(a) == <<-a[1], a[2]>>
RatMul(a, b) == Norm(a[1] * b[1], a[2] * b[2])
RatLe(a, b) == a[1] * b[2] <= b[1] * a[2]
RatLt(a, b) == a[1] * b[2] < b[1] * a[2]

(***************************************************************************)
(* Results of a Python call: a value or a raised exception, together with  *)
(* inv, the sequence of P_fn instances whose evaluator (self.value) was    *)
(* invoked while the call ran.                                             *)
(***************************************************************************)
Ok(v, inv) == [ok |-> TRUE, v |-> v, exc |-> "", inv |-> inv]
Raise(e, inv) == [ok |-> FALSE, v |-> Zero, exc |-> e, inv |-> inv]

\* r after the invocations in log have already happened.
After(log, r) == [r EXCEPT !.inv = log \o r.inv]

\* Python's a / b on floats.
RatDiv(a, b, inv) ==
    IF b[1] = 0 THEN Raise("ZeroDivisionError", inv)
    ELSE Ok(Norm(a[1] * b[2], a[2] * b[1]), inv)

(***************************************************************************)
(* Inputs: the integers 3 and 4, the string 'H', and pairs of them.        *)
(***************************************************************************)
PyInt(i) == [ty |-> "int", n |-> i, s |-> "", items |-> <<>>]
PyStr(c) == [ty |-> "str", n |-> 0, s |-> c, items |-> <<>>]
PyTuple(a, b) == [ty |-> "tuple", n |-> 0, s |-> "", items |-> <<a, b>>]
NoInput == [ty |-> "none", n |-> 0, s |-> "", items |-> <<>>]

Atoms == {PyInt(3), PyInt(4), PyStr("H")}
Inputs == Atoms \cup {PyTuple(a, b) : a \in Atoms, b \in Atoms}

\* isinstance(x, tuple)
IsTuple(x) == x.ty = "tuple"

(***************************************************************************)
(* Caller-supplied evaluators and conditions (the lambdas of the tests).   *)
(***************************************************************************)
\* lambda x: 1/6 if 1 <= x <= 6 else 0
p_die(x) ==
    IF x.ty = "int"
    THEN Ok(IF 1 <= x.n /\ x.n <= 6 THEN <<1, 6>> ELSE Zero, <<>>)
    ELSE Raise("TypeError", <<>>)

\* lambda x: 1/2 if x in ['H', 'T'] else 0
p_coin(x) ==
    Ok(IF x.ty = "str" /\ x.s \in {"H", "T"} THEN <<1, 2>> ELSE Zero, <<>>)

\* is_even = lambda x: x % 2 == 0
is_even(x) ==
    IF x.ty = "int"
    THEN [ok |-> TRUE, b |-> (x.n % 2 = 0), exc |-> ""]
    ELSE [ok |-> FALSE, b |-> FALSE, exc |-> "TypeError"]

\* a second integer predicate, lambda x: x > 0
is_pos(x) ==
    IF x.ty = "int"
    THEN [ok |-> TRUE, b |-> (x.n > 0), exc |-> ""]
    ELSE [ok |-> FALSE, b |-> FALSE, exc |-> "TypeError"]

None == "None"
Conditions == {"is_even", "is_pos"}
OptConditions == Conditions \cup {None}

\* condition(*args)
Pred(c, x) == IF c = "is_even" THEN is_even(x) ELSE is_pos(x)

\* value(*args) for a caller-supplied function
BaseFn(f, x) == IF f = "p_die" THEN p_die(x) ELSE p_coin(x)

(***************************************************************************)
(* The values a P_fn can hold in self.value: a constant, a caller-supplied *)
(* function, or one of the closures the combinators build, which capture   *)
(* self and other by reference.                                            *)
(***************************************************************************)
Const(c) == [kind |-> "const", c |-> c, fn |-> "", self |-> 0, other |-> 0]
Fn(f) == [kind |-> "fn", c |-> Zero, fn |-> f, self |-> 0, other |-> 0]
Closure(k, s, o) == [kind |-> k, c |-> Zero, fn |-> "", self |-> s, other |-> o]

BaseValues == {Const(One), Fn("p_die"), Fn("p_coin")}

\* callable(self.value)
Callable(v) == v.kind # "const"

(***************************************************************************)
(* State.                                                                  *)
(*   heap  the P_fn instances constructed so far, by identity 1..Len(heap) *)
(*   made  history: the operation that constructed each instance           *)
(*   last  the most recent operation and its result                        *)
(*   plast the most recent operation on the scalar type P and its result   *)
(***************************************************************************)
VARIABLES heap, made, last, plast

vars == <<heap, made, last, plast>>

\* P_fn.__init__
P_fn(value, condition) == [value |-> value, condition |-> condition]

RECURSIVE Call(_, _, _), Invoke(_, _, _)

\* Variant of ConditionalLambda without the zero test: self(x) / other(x).
ConditionalLambdaUnguarded(h, s, o, x) ==
    LET f == Call(h, s, x)
    IN  IF ~f.ok THEN f
        ELSE LET g == After(f.inv, Call(h, o, x))
             IN  IF ~g.ok THEN g ELSE RatDiv(f.v, g.v, g.inv)

\* conditional: lambda x: self(x) / other(x) if other(x) != 0 else 0
ConditionalLambda(h, s, o, x) ==
    LET t == Call(h, o, x)
    IN  IF ~t.ok THEN t
        ELSE IF t.v # Zero
        THEN LET f == After(t.inv, Call(h, s, x))
             IN  IF ~f.ok THEN f
                 ELSE LET g == After(f.inv, Call(h, o, x))
                      IN  IF ~g.ok THEN g ELSE RatDiv(f.v, g.v, g.inv)
        ELSE Ok(Zero, t.inv)

\* Variant of IndependentLambda with the general union rule:
\* self(x) + other(x) - self(x) * other(x).
IndependentLambdaUnion(h, s, o, x) ==
    LET f == Call(h, s, x)
    IN  IF ~f.ok THEN f
        ELSE LET g == After(f.inv, Call(h, o, x))
             IN  IF ~g.ok THEN g
                 ELSE Ok(RatAdd(RatAdd(f.v, g.v), RatNeg(RatMul(f.v, g.v))),
                         g.inv)

\* independent: lambda x: self(x) + other(x)
IndependentLambda(h, s, o, x) ==
    LET f == Call(h, s, x)
    IN  IF ~f.ok THEN f
        ELSE LET g == After(f.inv, Call(h, o, x))
             IN  IF ~g.ok THEN g ELSE Ok(RatAdd(f.v, g.v), g.inv)

\* Variant of DependentLambda without the tuple branch: self(x) * other(x).
DependentLambdaSame(h, s, o, x) ==
    LET f == Call(h, s, x)
    IN  IF ~f.ok THEN f
        ELSE LET g == After(f.inv, Call(h, o, x))
             IN  IF ~g.ok THEN g ELSE Ok(RatMul(f.v, g.v), g.inv)

\* Variant of DependentLambda that adds where the code multiplies.
DependentLambdaSum(h, s, o, x) ==
    LET x0 == IF IsTuple(x) THEN x.items[1] ELSE x
        x1 == IF IsTuple(x) THEN x.items[2] ELSE x
        f == Call(h, s, x0)
    IN  IF ~f.ok THEN f
        ELSE LET g == After(f.inv, Call(h, o, x1))
             IN  IF ~g.ok THEN g ELSE Ok(RatAdd(f.v, g.v), g.inv)

\* dependent: lambda x: self(x[0]) * other(x[1]) if isinstance(x, tuple)
\*                      else self(x) * other(x)
DependentLambda(h, s, o, x) ==
    LET x0 == IF IsTuple(x) THEN x.items[1] ELSE x
        x1 == IF IsTuple(x) THEN x.items[2] ELSE x
        f == Call(h, s, x0)
    IN  IF ~f.ok THEN f
        ELSE LET g == After(f.inv, Call(h, o, x1))
             IN  IF ~g.ok THEN g ELSE Ok(RatMul(f.v, g.v), g.inv)

\* self.value(*args) for a callable self.value
Invoke(h, id, x) ==
    LET val == h[id].value
    IN  CASE val.kind = "fn" -> BaseFn(val.fn, x)
          [] val.kind = "conditional" ->
                ConditionalLambda(h, val.self, val.other, x)
          [] val.kind = "independent" ->
                IndependentLambda(h, val.self, val.other, x)
          [] val.kind = "dependent" ->
                DependentLambda(h, val.self, val.other, x)

\* self.condition is None or self.condition(*args)
ConditionTest(c, x) ==
    IF c = None THEN [ok |-> TRUE, b |-> TRUE, exc |-> ""] ELSE Pred(c, x)

\* Variant of Call that invokes the evaluator before it tests the condition.
CallEager(h, id, x) ==
    LET obj == h[id]
        r == IF Callable(obj.value) THEN After(<<id>>, Invoke(h, id, x))
             ELSE Ok(obj.value.c, <<>>)
        c == ConditionTest(obj.condition, x)
    IN  IF ~r.ok THEN r
        ELSE IF ~c.ok THEN Raise(c.exc, r.inv)
        ELSE IF c.b THEN r ELSE Ok(Zero, r.inv)

\* P_fn.__call__ with one argument
Call(h, id, x) ==
    LET obj == h[id]
        c == ConditionTest(obj.condition, x)
    IN  IF ~c.ok THEN Raise(c.exc, <<>>)
        ELSE IF Callable(obj.value)
        THEN IF c.b THEN After(<<id>>, Invoke(h, id, x)) ELSE Ok(Zero, <<>>)
        ELSE IF c.b THEN Ok(obj.value.c, <<>>) ELSE Ok(Zero, <<>>)

\* Python's "a and b" on objects: b when a is truthy, else a.  A function
\* object is always truthy.
PyAnd(a, b) == IF a # None THEN b ELSE a

\* the condition handed to the instance given() constructs
GivenCondition(old, condition, replace) ==
    IF ~replace /\ old # None THEN PyAnd(old, condition) ELSE condition

NoRes == Ok(Zero, <<>>)
NoMade == [op |-> "", self |-> 0, other |-> 0, condition |-> None, replace |-> TRUE]
Op(name, s, o, x, new, res) ==
    [op |-> name, self |-> s, other |-> o, x |-> x, new |-> new, res |-> res]

Ids == 1..Len(heap)
NewId == Len(heap) + 1
CanAllocate == Len(heap) < MaxObjects

\* the heap after a constructor call returned a fresh instance
Allocate(obj, how) ==
    /\ heap' = Append(heap, obj)
    /\ made' = Append(made, how)

\* P_fn(value, condition) called by the user
construct(value, condition) ==
    /\ CanAllocate
    /\ Allocate(P_fn(value, condition),
                [NoMade EXCEPT !.op = "P_fn", !.condition = condition])
    /\ last' = Op("P_fn", 0, 0, NoInput, NewId, NoRes)
    /\ UNCHANGED plast

\* f(x)
call(id, x) ==
    /\ last' = Op("call", id, 0, x, 0, Call(heap, id, x))
    /\ UNCHANGED <<heap, made, plast>>

\* Variant of given that sets the condition on self and returns self.
givenInPlace(self, condition, replace) ==
    /\ CanAllocate
    /\ heap' = [heap EXCEPT ![self].condition =
                    GivenCondition(heap[self].condition, condition, replace)]
    /\ made' = made
    /\ last' = Op("given", self, 0, NoInput, self, NoRes)
    /\ UNCHANGED plast

\* f.given(condition, replace)
given(self, condition, replace) ==
    /\ CanAllocate
    /\ Allocate(P_fn(heap[self].value,
                     GivenCondition(heap[self].condition, condition, replace)),
                [op |-> "given", self |-> self, other |-> 0,
                 condition |-> condition, replace |-> replace])
    /\ last' = Op("given", self, 0, NoInput, NewId, NoRes)
    /\ UNCHANGED plast

\* f.conditional(g)
conditional(self, other) ==
    /\ CanAllocate
    /\ Allocate(P_fn(Closure("conditional", self, other), heap[self].condition),
                [NoMade EXCEPT !.op = "conditional", !.self = self, !.other = other])
    /\ last' = Op("conditional", self, other, NoInput, NewId, NoRes)
    /\ UNCHANGED plast

\* f.independent(g)
independent(self, other) ==
    /\ CanAllocate
    /\ Allocate(P_fn(Closure("independent", self, other), None),
                [NoMade EXCEPT !.op = "independent", !.self = self, !.other = other])
    /\ last' = Op("independent", self, other, NoInput, NewId, NoRes)
    /\ UNCHANGED plast

\* f.mutually_exclusive(g): the body names the global "independent", which
\* the module does not define, so evaluating it raises NameError.
mutually_exclusive(self, other) ==
    /\ last' = Op("mutually_exclusive", self, other, NoInput, 0,
                  Raise("NameError", <<>>))
    /\ UNCHANGED <<heap, made, plast>>

\* f.dependent(g)
dependent(self, other) ==
    /\ CanAllocate
    /\ Allocate(P_fn(Closure("dependent", self, other), None),
                [NoMade EXCEPT !.op = "dependent", !.self = self, !.other = other])
    /\ last' = Op("dependent", self, other, NoInput, NewId, NoRes)
    /\ UNCHANGED plast

(***************************************************************************)
(* The scalar probability type P.  A P instance is its value; a method     *)
(* returns a result record (inv is unused and stays empty).                *)
(***************************************************************************)
MinusOne == <<-1, 1>>

\* P.__init__
P_init(value) ==
    IF RatLt(value, MinusOne) \/ RatLt(One, value)
    THEN Raise("ValueError", <<>>)
    ELSE Ok(value, <<>>)

\* "if isinstance(other, float): other = P(value=other)"
P_coerce(other, isfloat) == IF isfloat THEN P_init(other) ELSE Ok(other, <<>>)

\* P.__add__
P_add(self, other, isfloat, indep) ==
    LET o == P_coerce(other, isfloat)
    IN  IF ~o.ok THEN o
        ELSE IF indep THEN P_init(RatAdd(self, o.v))
        ELSE P_init(RatAdd(RatAdd(self, o.v), RatNeg(RatMul(self, o.v))))

\* P.__mul__
P_mul(self, other, isfloat) ==
    LET o == P_coerce(other, isfloat)
    IN  IF ~o.ok THEN o ELSE P_init(RatMul(self, o.v))

\* P.__sub__
P_sub(self, other, isfloat, indep) ==
    LET other_sub == P_init(RatNeg(other))
    IN  IF ~other_sub.ok THEN other_sub
        ELSE P_add(self, other_sub.v, FALSE, indep)

\* P.__or__: "return self + other - p_A_and_B"
P_or(self, other, isfloat) ==
    LET o == P_coerce(other, isfloat)
    IN  IF ~o.ok THEN o
        ELSE LET p_A_and_B == P_mul(self, o.v, FALSE)
             IN  IF ~p_A_and_B.ok THEN p_A_and_B
                 ELSE LET sum == P_add(self, o.v, FALSE, TRUE)
                      IN  IF ~sum.ok THEN sum
                          ELSE P_sub(sum.v, p_A_and_B.v, FALSE, TRUE)

\* P.__and__
P_and(self, other, isfloat) == P_mul(self, other, isfloat)

\* the floats tried as arguments, and those of them a P instance can hold
PGrid == {Norm(k, PDen) : k \in (-(PDen + 1))..(PDen + 1)}
PValues == {q \in PGrid : P_init(q).ok}

POp(name, a, b, isfloat, indep, res) ==
    [op |-> name, a |-> a, b |-> b, isfloat |-> isfloat, indep |-> indep,
     res |-> res]

NoP == POp("", Zero, Zero, FALSE, TRUE, NoRes)

\* P(value)
P_new(value) ==
    /\ plast' = POp("P", value, Zero, TRUE, TRUE, P_init(value))
    /\ UNCHANGED <<heap, made, last>>

\* a + b, a.p_add(b, independent)
add(a, b, isfloat, indep) ==
    /\ plast' = POp("add", a, b, isfloat, indep, P_add(a, b, isfloat, indep))
    /\ UNCHANGED <<heap, made, last>>

\* a - b, a.p_sub(b, independent)
sub(a, b, isfloat, indep) ==
    /\ plast' = POp("sub", a, b, isfloat, indep, P_sub(a, b, isfloat, indep))
    /\ UNCHANGED <<heap, made, last>>

\* a * b
mul(a, b, isfloat) ==
    /\ plast' = POp("mul", a, b, isfloat, TRUE, P_mul(a, b, isfloat))
    /\ UNCHANGED <<heap, made, last>>

\* a | b, operator.or_(a, b), a.p_or(b)
or_(a, b, isfloat) ==
    /\ plast' = POp("or", a, b, isfloat, TRUE, P_or(a, b, isfloat))
    /\ UNCHANGED <<heap, made, last>>

\* a & b, operator.and_(a, b), a.p_and(b)
and_(a, b, isfloat) ==
    /\ plast' = POp("and", a, b, isfloat, TRUE, P_and(a, b, isfloat))
    /\ UNCHANGED <<heap, made, last>>

\* the second operand: a P instance, or a float
Operands(isfloat) == IF isfloat THEN PGrid ELSE PValues

NextP ==
    \/ \E v \in PGrid : P_new(v)
    \/ \E a \in PValues, f \in BOOLEAN, i \in BOOLEAN :
          \E b \in Operands(f) : add(a, b, f, i)
    \/ \E a \in PValues, f \in BOOLEAN, i \in BOOLEAN :
          \E b \in Operands(f) : sub(a, b, f, i)
    \/ \E a \in PValues, f \in BOOLEAN : \E b \in Operands(f) : mul(a, b, f)
    \/ \E a \in PValues, f \in BOOLEAN : \E b \in Operands(f) : or_(a, b, f)
    \/ \E a \in PValues, f \in BOOLEAN : \E b \in Operands(f) : and_(a, b, f)

Init ==
    /\ heap = <<>>
    /\ made = <<>>
    /\ last = Op("", 0, 0, NoInput, 0, NoRes)
    /\ plast = NoP

Next ==
    \/ \E v \in BaseValues, c \in OptConditions : construct(v, c)
    \/ \E id \in Ids, x \in Inputs : call(id, x)
    \/ \E s \in Ids, c \in OptConditions, r \in BOOLEAN : given(s, c, r)
    \/ \E s \in Ids, o \in Ids : conditional(s, o)
    \/ \E s \in Ids, o \in Ids : independent(s, o)
    \/ \E s \in Ids, o \in Ids : mutually_exclusive(s, o)
    \/ \E s \in Ids, o \in Ids : dependent(s, o)

Spec == Init /\ [][Next]_vars

SpecP == Init /\ [][NextP]_vars

(***************************************************************************)
(* Properties.                                                             *)
(***************************************************************************)
\* the last operation was f(x) for the instance f == LastObj
IsCall == last.op = "call"
LastObj == heap[last.self]
\* the last operation was a call of an instance that combinator op returned
CallOf(op) == IsCall /\ made[last.self].op = op

InUnit(v) == RatLe(Zero, v) /\ RatLe(v, One)

\* condition c is evaluated on x without raising and is false
IsFalse(c, x) == c # None /\ Pred(c, x).ok /\ ~Pred(c, x).b
\* C1: when f has a condition c and c(x) is false, f(x) returns exactly 0
\* and no evaluator is invoked during the call, whether f's evaluator is a
\* callable or a constant.
C1_ConditionFalseShortCircuits ==
    (IsCall /\ IsFalse(LastObj.condition, last.x))
        => /\ last.res.ok
           /\ last.res.v = Zero
           /\ last.res.inv = <<>>

\* C1 happens: a conditioned instance with a callable evaluator that is
\* non-zero at x was called where its condition is false.
C1_Witness ==
    /\ IsCall
    /\ IsFalse(LastObj.condition, last.x)
    /\ Callable(LastObj.value)
    /\ Invoke(heap, last.self, last.x).ok
    /\ Invoke(heap, last.self, last.x).v # Zero

\* C2: f.conditional(g) carries f's condition, and wherever f(x) and g(x)
\* are values, f.conditional(g)(x) is f(x) / g(x) when g(x) != 0 and 0 when
\* g(x) = 0, never a division error.
C2_ConditionalIsGuardedQuotient ==
    CallOf("conditional") =>
        LET m == made[last.self]
            f == Call(heap, m.self, last.x)
            g == Call(heap, m.other, last.x)
        IN  /\ LastObj.condition = heap[m.self].condition
            /\ (f.ok /\ g.ok) =>
                  /\ last.res.ok
                  /\ last.res.v = IF g.v # Zero
                                  THEN Norm(f.v[1] * g.v[2], f.v[2] * g.v[1])
                                  ELSE Zero

\* C2 happens: f has a condition, f(x) is not 0 and g(x) is 0.
C2_Witness ==
    /\ CallOf("conditional")
    /\ LastObj.condition # None
    /\ Call(heap, made[last.self].self, last.x).ok
    /\ Call(heap, made[last.self].self, last.x).v # Zero
    /\ Call(heap, made[last.self].other, last.x).ok
    /\ Call(heap, made[last.self].other, last.x).v = Zero
    /\ made[last.self].self # made[last.self].other

C4_IndependentOnPairIsProduct ==
    (/\ CallOf("independent")
     /\ IsTuple(last.x)
     /\ heap[made[last.self].self] = P_fn(Fn("p_die"), None)
     /\ heap[made[last.self].other] = P_fn(Fn("p_coin"), None))
        => LET f == Call(heap, made[last.self].self, last.x.items[1])
               g == Call(heap, made[last.self].other, last.x.items[2])
           IN  (f.ok /\ g.ok) =>
                   /\ last.res.ok
                   /\ last.res.v = RatMul(f.v, g.v)

\* C5: f.given(c2, replace=False) on an f with condition c1 is 0 unless c1(x)
\* and c2(x) both hold, and the evaluator's value f(x) when both hold.
C5_GivenConjoinsConditions ==
    (/\ CallOf("given")
     /\ ~made[last.self].replace
     /\ made[last.self].condition # None
     /\ heap[made[last.self].self].condition # None)
        => LET c1 == Pred(heap[made[last.self].self].condition, last.x)
               c2 == Pred(made[last.self].condition, last.x)
               f == Call(heap, made[last.self].self, last.x)
           IN  (c1.ok /\ c2.ok) =>
                   IF c1.b /\ c2.b
                   THEN last.res.ok = f.ok /\ last.res.v = f.v
                   ELSE last.res.ok /\ last.res.v = Zero

\* C6: f.mutually_exclusive(g) completes without an error and returns a new
\* P_fn whose value at every x is f(x) + g(x).
C6_MutuallyExclusiveIsSum ==
    last.op = "mutually_exclusive" =>
        /\ last.res.ok
        /\ last.new \in DOMAIN heap
        /\ \A x \in Inputs :
              Call(heap, last.new, x) =
                  After(<<last.new>>,
                        IndependentLambda(heap, last.self, last.other, x))

\* every base evaluator under instance id is a constant or the coin, the
\* evaluators that return a value in [0,1] on every input
RECURSIVE TotalLeaves(_, _)
TotalLeaves(h, id) ==
    LET val == h[id].value
    IN  CASE val.kind = "const" -> InUnit(val.c)
          [] val.kind = "fn" -> val.fn = "p_coin"
          [] OTHER -> TotalLeaves(h, val.self) /\ TotalLeaves(h, val.other)

\* instance id is composed with given and dependent only
RECURSIVE OnlyGivenDependent(_, _)
OnlyGivenDependent(h, id) ==
    LET val == h[id].value
    IN  CASE val.kind \in {"const", "fn"} -> TRUE
          [] val.kind = "dependent" ->
                OnlyGivenDependent(h, val.self) /\ OnlyGivenDependent(h, val.other)
          [] OTHER -> FALSE

\* C7 as stated: every value a composition over evaluators with values in
\* [0,1] returns lies in [0,1].
C7_ComposedInUnitInterval ==
    (IsCall /\ last.res.ok /\ TotalLeaves(heap, last.self)) => InUnit(last.res.v)

\* C7 amended: every value a composition returns is >= 0, and it is <= 1
\* when the composition uses only given and dependent.
C7_ComposedNonNegative ==
    (IsCall /\ last.res.ok) =>
        /\ RatLe(Zero, last.res.v)
        /\ OnlyGivenDependent(heap, last.self) => RatLe(last.res.v, One)

\* C7 happens: a dependent composition, one operand of which came from
\* given, returned a non-zero value.
C7_Witness ==
    /\ CallOf("dependent")
    /\ made[made[last.self].self].op = "given"
    /\ last.res.ok
    /\ last.res.v # Zero
    /\ InUnit(last.res.v)

\* C8: no operation changes an existing instance: its evaluator and its
\* condition stay as they are and it returns the same result on every
\* input; a combinator returns an instance that did not exist before.
\* (Results are compared on the steps that change the heap; on the others
\* both sides are evaluated on the same heap.)
C8_Immutable ==
    [][/\ \A id \in DOMAIN heap :
             /\ id \in DOMAIN heap'
             /\ heap'[id] = heap[id]
             /\ heap' # heap =>
                   \A x \in Inputs : Call(heap', id, x) = Call(heap, id, x)
       /\ last'.op \in {"given", "conditional", "independent", "dependent"} =>
             /\ last'.new \notin DOMAIN heap
             /\ last'.new \in DOMAIN heap']_vars

\* C8 happens: given returned an instance whose condition differs from
\* that of the instance it was called on.
C8_Witness ==
    /\ last.op = "given"
    /\ last.new \in DOMAIN heap
    /\ last.self \in DOMAIN heap
    /\ last.new # last.self
    /\ heap[last.new].condition # heap[last.self].condition

\* C9: wherever the operands' values exist, f.dependent(g)((x, y)) is
\* f(x) * g(y) on a pair and f.dependent(g)(x) is f(x) * g(x) otherwise.
C9_DependentIsProduct ==
    CallOf("dependent") =>
        LET m == made[last.self]
            x == last.x
            f == Call(heap, m.self, IF x.ty = "tuple" THEN x.items[1] ELSE x)
            g == Call(heap, m.other, IF x.ty = "tuple" THEN x.items[2] ELSE x)
        IN  (f.ok /\ g.ok) =>
                /\ last.res.ok
                /\ last.res.v = RatMul(f.v, g.v)

\* C9 happens: the die and the coin on the pair (3, 'H') give 1/12.
C9_Witness ==
    /\ CallOf("dependent")
    /\ last.x = PyTuple(PyInt(3), PyStr("H"))
    /\ last.res.ok
    /\ last.res.v = <<1, 12>>

\* C10: for u, v in [0,1], P(u) | P(v) returns P(u + v - u*v) and raises
\* no ValueError.
C10_OrIsAdditiveRule ==
    (/\ plast.op = "or"
     /\ InUnit(plast.a)
     /\ InUnit(plast.b))
        => /\ plast.res.ok
           /\ plast.res.v = RatAdd(RatAdd(plast.a, plast.b),
                                   RatNeg(RatMul(plast.a, plast.b)))

====
